---- MODULE Spec2Model ----
(***************************************************************************)
(* Model of the OP3 analytics hook of podstr                              *)
(* (src/src/hooks/useUploadFile.ts, useOP3Analytics) and of the           *)
(* component that displays it (src/unnamed/part_000, OP3Analytics).        *)
(*                                                                         *)
(* Strings are modelled by integers: 0 is the absent / empty string (the  *)
(* falsy values of JavaScript), every other integer is one distinct       *)
(* non-empty string.  An instant is a number of seconds since 00:00 UTC   *)
(* of 1 January of the modelled year (the code's milliseconds, with the   *)
(* factor 1000 dropped on both sides of every comparison); the ISO text   *)
(* of an instant t is the pair "day T time-of-day", so the part before    *)
(* 'T' is the day number t \div DAY.                                      *)
(***************************************************************************)
EXTENDS Integers, Sequences, FiniteSets, TLC

\* ------------------------------------------------------------------ bounds
\* longest downloads response enumerated exhaustively
MaxRows == 3
\* longest upstream event store enumerated for the windowed fetch
MaxEvents == 2
MaxUrlLen == 3
MaxOps == 2
\* number of distinct category keys in the wide responses (more than the cap)
WideKeys == 11

\* --------------------------------------------------------------- constants
DAY == 24 * 60 * 60
TopN == 10
TimeRanges == {"7d", "30d", "90d", "month"}
NoTime == -1
NoData == [kind |-> "none"]

\* ----------------------------------------------------------------- helpers
Range(s) == {s[i] : i \in 1..Len(s)}

RECURSIVE SumSeq(_)
SumSeq(s) == IF s = <<>> THEN 0 ELSE Head(s) + SumSeq(Tail(s))

SeqsUpTo(S, n) == UNION {[1..k -> S] : k \in 0..n}

\* A JavaScript Map: a sequence of <<key, value>> pairs in insertion order.
MapHas(m, k) == \E i \in 1..Len(m) : m[i][1] = k
MapGet(m, k) == LET i == CHOOSE i \in 1..Len(m) : m[i][1] = k IN m[i][2]
MapSet(m, k, v) ==
    IF MapHas(m, k)
    THEN [m EXCEPT ![CHOOSE i \in 1..Len(m) : m[i][1] = k] = <<k, v>>]
    ELSE Append(m, <<k, v>>)
MapKeys(m) == [i \in 1..Len(m) |-> m[i][1]]
\* (m.get(k) || 0)
MapGetOr0(m, k) == IF MapHas(m, k) THEN MapGet(m, k) ELSE 0

\* ------------------------------------------------------------- DownloadRow
Row(t, u, e, a, d, c, h) ==
    [time |-> t, url |-> u, episodeId |-> e, agentName |-> a,
     deviceType |-> d, countryCode |-> c, hashedIpAddress |-> h]

\* new Date(r.time).getTime(): NaN for a missing time; NaN >= x is false
GetTimeGT(r, bound) == r.time # NoTime /\ r.time > bound
GetTimeGE(r, bound) == r.time # NoTime /\ r.time >= bound

\* r.time.split('T')[0]
DateKey(r) == r.time \div DAY

\* row.episodeId || row.url
EpisodeKey(r) == IF r.episodeId # 0 THEN r.episodeId ELSE r.url

\* ------------------------------------------------------------------ totals
Downloads7Days(allRows, nowT) ==
    LET now7d == nowT - 7 * DAY
    IN  Cardinality({i \in 1..Len(allRows) : GetTimeGE(allRows[i], now7d)})

Downloads30Days(allRows, nowT) ==
    LET now30d == nowT - 30 * DAY
    IN  Cardinality({i \in 1..Len(allRows) : GetTimeGE(allRows[i], now30d)})

\* allRows.map(r => r.hashedIpAddress)
HashesOf(allRows) == [i \in 1..Len(allRows) |-> allRows[i].hashedIpAddress]

\* .filter(Boolean)
FilterKeepAll(s) == s
FilterBoolean(s) == SelectSeq(s, LAMBDA x : x # 0)

\* new Set(...).size
UniqueAudience(allRows) == Cardinality(Range(FilterBoolean(HashesOf(allRows))))

\* ----------------------------------------------------------- episode stats
RECURSIVE EpisodeMapUnguarded(_)
EpisodeMapUnguarded(allRows) ==
    IF allRows = <<>> THEN <<>>
    ELSE LET n    == Len(allRows)
             m    == EpisodeMapUnguarded(SubSeq(allRows, 1, n - 1))
             row  == allRows[n]
             id   == EpisodeKey(row)
             old  == IF MapHas(m, id) THEN MapGet(m, id)
                     ELSE [downloads |-> 0, uniqueIps |-> {}]
         IN  MapSet(m, id,
                    [downloads |-> old.downloads + 1,
                     uniqueIps |-> old.uniqueIps \cup {row.hashedIpAddress}])

RECURSIVE EpisodeMap(_)
EpisodeMap(allRows) ==
    IF allRows = <<>> THEN <<>>
    ELSE LET n    == Len(allRows)
             m    == EpisodeMap(SubSeq(allRows, 1, n - 1))
             row  == allRows[n]
             id   == EpisodeKey(row)
             old  == IF MapHas(m, id) THEN MapGet(m, id)
                     ELSE [downloads |-> 0, uniqueIps |-> {}]
         IN  MapSet(m, id,
                    [downloads |-> old.downloads + 1,
                     uniqueIps |-> IF row.hashedIpAddress # 0
                                   THEN old.uniqueIps \cup {row.hashedIpAddress}
                                   ELSE old.uniqueIps])

\* stable sort, comparator (a, b) => b.downloads - a.downloads
RECURSIVE SortByDownloads(_)
SortByDownloads(s) ==
    IF s = <<>> THEN <<>>
    ELSE LET n    == Len(s)
             done == SortByDownloads(SubSeq(s, 1, n - 1))
             x    == s[n]
             k    == Cardinality({i \in 1..Len(done) :
                                    done[i].downloads >= x.downloads})
         IN  SubSeq(done, 1, k) \o <<x>> \o SubSeq(done, k + 1, Len(done))

\* episodeTitleMap.get(id) || id
TitleOrId(titles, id) ==
    IF MapHas(titles, id) /\ MapGet(titles, id) # 0 THEN MapGet(titles, id) ELSE id

EpisodeStats(allRows, titles) ==
    LET m == EpisodeMap(allRows)
    IN  SortByDownloads([i \in 1..Len(m) |->
            [episodeId |-> m[i][1],
             url |-> TitleOrId(titles, m[i][1]),
             downloads |-> m[i][2].downloads,
             uniqueListeners |-> Cardinality(m[i][2].uniqueIps)]])

\* ---------------------------------------------------------- category stats
\* appMap / countryMap / deviceMap: count of the rows per truthy value of
\* one field, keys in order of first occurrence
RECURSIVE CountMapUnguarded(_, _)
CountMapUnguarded(allRows, field) ==
    IF allRows = <<>> THEN <<>>
    ELSE LET n   == Len(allRows)
             m   == CountMapUnguarded(SubSeq(allRows, 1, n - 1), field)
             key == allRows[n][field]
         IN  MapSet(m, key, MapGetOr0(m, key) + 1)
RECURSIVE CountMap(_, _)
CountMap(allRows, field) ==
    IF allRows = <<>> THEN <<>>
    ELSE LET n   == Len(allRows)
             m   == CountMap(SubSeq(allRows, 1, n - 1), field)
             key == allRows[n][field]
         IN  IF key # 0 THEN MapSet(m, key, MapGetOr0(m, key) + 1) ELSE m

\* (count / totalDownloads) * 100 as the exact fraction num / den;
\* den = 0 is the division by zero (NaN for 0 / 0, Infinity otherwise)
PercentageTimes10(count, totalDownloads) ==
    [num |-> count * 10, den |-> totalDownloads]
Percentage(count, totalDownloads) ==
    [num |-> count * 100, den |-> totalDownloads]

IsNaN(p) == p.den = 0

\* .map(([key, count]) => ({ key, count, percentage }))
EntriesOfCounted(m, totalDownloads) ==
    [i \in 1..Len(m) |->
        [key |-> m[i][1], count |-> m[i][2],
         percentage |->
            Percentage(m[i][2], SumSeq([j \in 1..Len(m) |-> m[j][2]]))]]
Entries(m, totalDownloads) ==
    [i \in 1..Len(m) |->
        [key |-> m[i][1], count |-> m[i][2],
         percentage |-> Percentage(m[i][2], totalDownloads)]]

\* stable sort, comparator (a, b) => b.count - a.count
RECURSIVE SortByCountUnstable(_)
SortByCountUnstable(s) ==
    IF s = <<>> THEN <<>>
    ELSE LET n    == Len(s)
             done == SortByCountUnstable(SubSeq(s, 1, n - 1))
             x    == s[n]
             k    == Cardinality({i \in 1..Len(done) : done[i].count > x.count})
         IN  SubSeq(done, 1, k) \o <<x>> \o SubSeq(done, k + 1, Len(done))
RECURSIVE SortByCount(_)
SortByCount(s) ==
    IF s = <<>> THEN <<>>
    ELSE LET n    == Len(s)
             done == SortByCount(SubSeq(s, 1, n - 1))
             x    == s[n]
             k    == Cardinality({i \in 1..Len(done) : done[i].count >= x.count})
         IN  SubSeq(done, 1, k) \o <<x>> \o SubSeq(done, k + 1, Len(done))

\* .slice(0, 10)
SliceTop(s) == SubSeq(s, 1, IF Len(s) < TopN THEN Len(s) ELSE TopN)

TopApps(allRows) ==
    SliceTop(SortByCount(Entries(CountMap(allRows, "agentName"), Len(allRows))))

TopCountriesSliceFirst(allRows) ==
    SortByCount(SliceTop(Entries(CountMap(allRows, "countryCode"), Len(allRows))))
TopCountries(allRows) ==
    SliceTop(SortByCount(Entries(CountMap(allRows, "countryCode"), Len(allRows))))

TopDevices(allRows) ==
    SortByCount(Entries(CountMap(allRows, "deviceType"), Len(allRows)))

\* ------------------------------------------------------- the response body
\* a downloads response body that has no rows member
Absent == <<[absent |-> TRUE]>>

\* downloadsData.rows || []
RowsOrEmptyNoDefault(body) == body
RowsOrEmpty(body) == IF body = Absent THEN <<>> ELSE body

\* ------------------------------------------------------------- time series
\* row.time.split('T') throws a TypeError when time is missing
SplitThrows(allRows) == \E i \in 1..Len(allRows) : allRows[i].time = NoTime

\* Map<date, Map<episode, downloads>>, both levels in insertion order
RECURSIVE EpisodeDailyMapNoFallback(_)
EpisodeDailyMapNoFallback(allRows) ==
    IF allRows = <<>> THEN <<>>
    ELSE LET n      == Len(allRows)
             m      == EpisodeDailyMapNoFallback(SubSeq(allRows, 1, n - 1))
             date   == DateKey(allRows[n])
             id     == allRows[n].episodeId
             dayMap == IF MapHas(m, date) THEN MapGet(m, date) ELSE <<>>
         IN  MapSet(m, date, MapSet(dayMap, id, MapGetOr0(dayMap, id) + 1))

RECURSIVE EpisodeDailyMap(_)
EpisodeDailyMap(allRows) ==
    IF allRows = <<>> THEN <<>>
    ELSE LET n      == Len(allRows)
             m      == EpisodeDailyMap(SubSeq(allRows, 1, n - 1))
             date   == DateKey(allRows[n])
             id     == EpisodeKey(allRows[n])
             dayMap == IF MapHas(m, date) THEN MapGet(m, date) ELSE <<>>
         IN  MapSet(m, date, MapSet(dayMap, id, MapGetOr0(dayMap, id) + 1))

\* Array.from(keys).sort(): the keys are distinct dates of equal length, on
\* which the default string order is the order of the day numbers
RECURSIVE SortDates(_)
SortDatesUnsorted(dates) == dates
SortDates(dates) ==
    IF dates = <<>> THEN <<>>
    ELSE LET lo == CHOOSE d \in Range(dates) : \A e \in Range(dates) : d <= e
         IN  <<lo>> \o SortDates(SelectSeq(dates, LAMBDA d : d # lo))

\* allEpisodeIds (a Set, in insertion order) with every value set to 0
RECURSIVE AddIds(_, _)
AddIds(cum, dayMap) ==
    IF dayMap = <<>> THEN cum
    ELSE AddIds(IF MapHas(cum, dayMap[1][1]) THEN cum
                ELSE Append(cum, <<dayMap[1][1], 0>>), Tail(dayMap))

RECURSIVE InitCumulative(_)
InitCumulativeEmpty(daily) == <<>>
InitCumulative(daily) ==
    IF daily = <<>> THEN <<>>
    ELSE AddIds(InitCumulative(SubSeq(daily, 1, Len(daily) - 1)),
                daily[Len(daily)][2])

\* (episodeCumulativeMap.get(episodeId) || 0) + count
DailyOnly(previous, count) == count
Accumulate(previous, count) == previous + count

\* dayData.forEach((count, episodeId) => episodeCumulativeMap.set(...))
RECURSIVE ApplyDay(_, _)
ApplyDay(cum, dayData) ==
    IF dayData = <<>> THEN cum
    ELSE LET id    == dayData[1][1]
             count == dayData[1][2]
         IN  ApplyDay(MapSet(cum, id, Accumulate(MapGetOr0(cum, id), count)),
                      Tail(dayData))

\* the data point { date, [episodeId]: cumulative, ... }
DataPoint(date, cum) ==
    [date |-> date,
     totals |-> [id \in Range(MapKeys(cum)) |-> MapGet(cum, id)]]

RECURSIVE WalkDates(_, _, _)
WalkDates(dates, daily, cum) ==
    IF dates = <<>> THEN <<>>
    ELSE LET next == ApplyDay(cum, MapGet(daily, Head(dates)))
         IN  <<DataPoint(Head(dates), next)>> \o WalkDates(Tail(dates), daily, next)

DownloadsOverTime(allRows) ==
    LET daily == EpisodeDailyMap(allRows)
    IN  WalkDates(SortDates(MapKeys(daily)), daily, InitCumulative(daily))

\* --------------------------------------------------------- the whole result
Aggregate(allRows, nowT, titles) ==
    [kind |-> "analytics",
     totalDownloads |-> Len(allRows),
     uniqueAudience |-> UniqueAudience(allRows),
     downloads7Days |-> Downloads7Days(allRows, nowT),
     downloads30Days |-> Downloads30Days(allRows, nowT),
     episodeStats |-> EpisodeStats(allRows, titles),
     topCountries |-> TopCountries(allRows),
     topApps |-> TopApps(allRows),
     topDevices |-> TopDevices(allRows),
     downloadsOverTime |-> DownloadsOverTime(allRows)]

\* the result returned when the downloads response is not OK
EmptyAnalytics ==
    [kind |-> "analytics",
     totalDownloads |-> 0, uniqueAudience |-> 0,
     downloads7Days |-> 0, downloads30Days |-> 0,
     episodeStats |-> <<>>, topCountries |-> <<>>, topApps |-> <<>>,
     topDevices |-> <<>>, downloadsOverTime |-> <<>>]

\* ------------------------------------------------- the request for the rows
\* the calendar of the modelled (non-leap) year, day 0 = 1 January
MonthLengths == <<31, 28, 31, 30, 31, 30, 31, 31, 30, 31, 30, 31>>

RECURSIVE MonthStartFrom(_, _, _)
MonthStartFrom(day, month, first) ==
    IF month = 12 \/ day < first + MonthLengths[month] THEN first
    ELSE MonthStartFrom(day, month + 1, first + MonthLengths[month])

\* the day number of new Date(now.getFullYear(), now.getMonth(), 1), a local
\* date, for the local day number `day`
MonthStart(day) == MonthStartFrom(day, 1, 0)

\* daysMap[timeRange]
DaysMap(tr) == CASE tr = "7d" -> 7 [] tr = "30d" -> 30 [] tr = "90d" -> 90

\* startDate: the UTC date of the start instant; tz is the offset of the
\* local zone from UTC in seconds, which only the 'month' branch reads
StartDate(tr, nowT, tz) ==
    IF tr = "month"
    THEN (MonthStart((nowT + tz) \div DAY) * DAY - tz) \div DAY
    ELSE (nowT - DaysMap(tr) * DAY) \div DAY

\* endDate = new Date().toISOString().split('T')[0]
EndDate(nowT) == nowT \div DAY

\* The rows the upstream returns for ?start=startDate&end=endDate: the events
\* dated from startDate on; whether the end date itself is included is the
\* upstream's choice (endIncl).  limit=20000 is never reached.
ServerRows(events, startDate, endDate, endIncl) ==
    SelectSeq(events, LAMBDA r :
        /\ r.time # NoTime
        /\ DateKey(r) >= startDate
        /\ \/ DateKey(r) < endDate
           \/ endIncl /\ DateKey(r) = endDate)

\* ---------------------------------------------------------------- the state
\* ------------------------------------------------------ OP3 prefix utilities
\* A URL is a sequence of parts; the empty sequence is the empty string.
UrlParts == {"https://", "http://", "op3.dev/e/", "x"}

OP3_PREFIX == <<"https://", "op3.dev/e/">>

\* url.startsWith(prefix)
StartsWith(url, prefix) ==
    Len(url) >= Len(prefix) /\ SubSeq(url, 1, Len(prefix)) = prefix

\* url.replace(/^https?:\/\//, '')
WithoutProtocol(url) ==
    IF StartsWith(url, <<"https://">>) \/ StartsWith(url, <<"http://">>)
    THEN Tail(url) ELSE url

addOP3Prefix(url) ==
    IF url = <<>> THEN url
    ELSE IF StartsWith(url, OP3_PREFIX) THEN url
    ELSE OP3_PREFIX \o WithoutProtocol(url)

removeOP3PrefixOnly(url) ==
    IF url = <<>> THEN url
    ELSE IF StartsWith(url, OP3_PREFIX)
         THEN SubSeq(url, Len(OP3_PREFIX) + 1, Len(url))
    ELSE url
removeOP3Prefix(url) ==
    IF url = <<>> THEN url
    ELSE IF StartsWith(url, OP3_PREFIX)
         THEN <<"https://">> \o SubSeq(url, Len(OP3_PREFIX) + 1, Len(url))
    ELSE url

hasOP3Prefix(url) == StartsWith(url, OP3_PREFIX)

VARIABLES
    original,         \* the URL the caller starts from
    url,              \* the URL the caller holds now
    trail,            \* the calls made so far, each with the URL it returned
    flag,             \* what the last hasOP3Prefix call returned
    timeRange,        \* the time range selected in the component
    now,              \* Date.now() of the request
    upstream,         \* the download events the upstream can report
    pc,               \* "idle", or "downloads" once the show response is read
    episodeTitleMap,  \* titles read from the show response
    queries           \* the query of each time range: its status and data

urlVars == <<original, url, trail, flag>>
vars == <<timeRange, now, upstream, pc, episodeTitleMap, queries, urlVars>>

\* A query: status and data are what useQuery hands to the component
\* (error is set exactly when status is "error"); response and rows record
\* which response ended queryFn ("showNotOk", "downloadsNotOk" or "rows") and
\* the rows it carried.
Pending ==
    [status |-> "pending", data |-> NoData, response |-> "none", rows |-> <<>>]
\* queryFn returned d
Succeeded(d, response, rows) ==
    [status |-> "success", data |-> d, response |-> response, rows |-> rows]
\* queryFn threw
FailedAsEmpty(response, rows) ==
    [status |-> "success", data |-> EmptyAnalytics, response |-> response,
     rows |-> rows]
Failed(response, rows) ==
    [status |-> "error", data |-> NoData, response |-> response, rows |-> rows]

\* the query the component reads: useOP3Analytics(timeRange)
Current == queries[timeRange]

\* ------------------------------------------------------------------- inputs
Now0 == 100 * DAY + 12 * 60 * 60
Now1 == 92 * DAY + 60 * 60
TZOffsets == {-5 * 60 * 60, 0, 2 * 60 * 60}

\* titles of the show response: none, or a title for episode 1
TitleMaps == {<<>>, <<<<1, 101>>>>}

\* rows that differ in date and item: two instants of one day, the 7-day
\* boundary among them, and two other days; items 1 and 2 and, for a row
\* without episodeId, the url 11; one row without a time
SeriesTimes == {Now0 - 7 * DAY, Now0 - 7 * DAY - 1, Now0 - 40 * DAY, Now0 - DAY}
SeriesRows ==
    {Row(t, 11, e, 1, 1, 1, 1) : t \in SeriesTimes, e \in {0, 1, 2}}
    \cup {Row(NoTime, 11, 1, 1, 1, 1, 1)}

\* rows that differ in country, app and device, each of which may be absent
CategoryRows ==
    {Row(Now0 - DAY, 11, 1, a, (a + c) % 3, c, 1) : a \in 0..2, c \in 0..2}

\* wide responses: n rows over WideKeys countries, apps and devices, the
\* i-th row taking the country and device k = 1 + (first + i * step) % WideKeys
\* and the app WideKeys + 1 - k
WideRows(n, first, step) ==
    [i \in 1..n |->
        LET k == 1 + ((first + i * step) % WideKeys)
        IN  Row(Now0 - DAY, 11, 1, WideKeys + 1 - k, k, k, 1)]
WideResponses ==
    {WideRows(n, first, step) :
        n \in {WideKeys - 6, WideKeys, WideKeys + 3, 2 * WideKeys + 1},
        first \in {0, 5}, step \in {1, 4, 7}}

\* WideKeys keys met in three rounds, round r leaving out the first
\* r * (r - 1) keys: the keys met first are the rarest (counts 1, 2 and 3)
Round(r) ==
    [i \in 1..(WideKeys - r * (r - 1)) |->
        LET k == r * (r - 1) + i
        IN  Row(Now0 - DAY, 11, 1, WideKeys + 1 - k, k, k, 1)]
RarestFirst == Round(1) \o Round(2) \o Round(3)

\* rows at the lower bounds of the 7-day and 30-day counts, one second
\* before each, and one day after now
BoundaryTimes ==
    {Now0 - 7 * DAY, Now0 - 7 * DAY - 1, Now0 - 30 * DAY, Now0 - 30 * DAY - 1,
     Now0 + DAY}
BoundaryRows == {Row(t, 11, 1, 1, 1, 1, 1) : t \in BoundaryTimes}

\* rows of three episodes, the third known by its url only, each with one of
\* two listener hashes or none
AudienceRows ==
    {Row(Now0 - DAY, 11 + (IF e = 0 THEN 1 ELSE 0), e, 1, 1, (e + h) % 3, h) :
        e \in 0..2, h \in 0..2}

Responses ==
    SeqsUpTo(SeriesRows, MaxRows) \cup SeqsUpTo(CategoryRows, MaxRows)
        \cup SeqsUpTo(BoundaryRows, MaxRows)
        \cup SeqsUpTo(AudienceRows, MaxRows)
        \cup WideResponses \cup {RarestFirst} \cup {Absent}

\* ------------------------------------------------------------------ actions
\* no OP3 prefix utility is called
NoUrl == original = <<>> /\ url = <<>> /\ trail = <<>> /\ flag = FALSE

Init ==
    /\ timeRange = "30d"
    /\ now = Now0
    /\ upstream \in Responses
    /\ pc = "idle"
    /\ episodeTitleMap = <<>>
    /\ queries = [tr \in TimeRanges |-> Pending]
    /\ NoUrl

\* fetch(url) of the show answers with a non-OK status: queryFn throws
FetchShowFail ==
    /\ pc = "idle"
    /\ Current.status = "pending"
    /\ queries' = [queries EXCEPT ![timeRange] = Failed("showNotOk", <<>>)]
    /\ UNCHANGED <<timeRange, now, upstream, pc, episodeTitleMap, urlVars>>

\* fetch(url) of the show answers OK: the titles are read
FetchShowOk ==
    /\ pc = "idle"
    /\ Current.status = "pending"
    /\ \E titles \in TitleMaps : episodeTitleMap' = titles
    /\ pc' = "downloads"
    /\ UNCHANGED <<timeRange, now, upstream, queries, urlVars>>

\* the downloads response is not OK: the all-zero result is returned
FetchDownloadsFail ==
    /\ pc = "downloads"
    /\ queries' = [queries EXCEPT ![timeRange] =
                      Succeeded(EmptyAnalytics, "downloadsNotOk", <<>>)]
    /\ pc' = "idle"
    /\ UNCHANGED <<timeRange, now, upstream, episodeTitleMap, urlVars>>

\* the downloads response is OK and carries body: the rest of queryFn, which
\* throws a TypeError at allRows.length when allRows is undefined and at
\* row.time.split when a row has no time
Process(body) ==
    /\ LET allRows == RowsOrEmpty(body) IN
       queries' = [queries EXCEPT ![timeRange] =
                      IF allRows = Absent \/ SplitThrows(allRows)
                      THEN Failed("rows", allRows)
                      ELSE Succeeded(Aggregate(allRows, now, episodeTitleMap),
                                     "rows", allRows)]
    /\ pc' = "idle"
    /\ UNCHANGED <<timeRange, now, upstream, episodeTitleMap, urlVars>>

\* the response is any row sequence: here, all of upstream as it is
FetchDownloadsOk ==
    /\ pc = "downloads"
    /\ Process(upstream)

Next ==
    \/ FetchShowFail
    \/ FetchShowOk
    \/ FetchDownloadsFail
    \/ FetchDownloadsOk

Spec == Init /\ [][Next]_vars

\* -------------------------------------- the component and the upstream store
\* download events at instants on either side of the starts of the ranges
WindowTimes ==
    {Now0 - 7 * DAY, Now0 - 20 * DAY, Now0 - 60 * DAY,
     Now1 - 5 * DAY, Now1 - 30 * 60}
WindowRows == {Row(t, 11, 2, 1, 1, 1, 1) : t \in WindowTimes}

InitWindow ==
    /\ timeRange = "month"
    /\ now \in {Now0, Now1}
    /\ upstream \in SeqsUpTo(WindowRows, MaxEvents)
    /\ pc = "idle"
    /\ episodeTitleMap = <<>>
    /\ queries = [tr \in TimeRanges |-> Pending]
    /\ NoUrl

\* a time range button is clicked: the component reads the query of that
\* range; a request in flight for the range left is aborted through signal
SetTimeRange(tr) ==
    /\ tr # timeRange
    /\ timeRange' = tr
    /\ pc' = "idle"
    /\ UNCHANGED <<now, upstream, episodeTitleMap, queries, urlVars>>

\* the downloads response is OK: the upstream answers the request for
\* start=startDate, end=endDate with the events of that range, and may leave
\* out the rows member when there are none
FetchDownloadsWindowOk ==
    /\ pc = "downloads"
    /\ \E tz \in TZOffsets : \E endIncl \in BOOLEAN :
          LET rows == ServerRows(upstream, StartDate(timeRange, now, tz),
                                 EndDate(now), endIncl)
          IN  \E body \in {rows} \cup (IF rows = <<>> THEN {Absent} ELSE {}) :
                  Process(body)

\* the requests of every range are answered OK (Spec has the other answers)
NextWindow ==
    \/ \E tr \in TimeRanges : SetTimeRange(tr)
    \/ FetchShowOk
    \/ FetchDownloadsWindowOk

SpecWindow == InitWindow /\ [][NextWindow]_vars

\* ------------------------------------------- calls of the prefix utilities
Urls == SeqsUpTo(UrlParts, MaxUrlLen)

InitUrl ==
    /\ original \in Urls
    /\ url = original
    /\ trail = <<>>
    /\ flag = FALSE
    /\ timeRange = "30d"
    /\ now = Now0
    /\ upstream = <<>>
    /\ pc = "idle"
    /\ episodeTitleMap = <<>>
    /\ queries = [tr \in TimeRanges |-> Pending]

analyticsVars == <<timeRange, now, upstream, pc, episodeTitleMap, queries>>

\* url = addOP3Prefix(url)
AddPrefix ==
    /\ Len(trail) < MaxOps
    /\ url' = addOP3Prefix(url)
    /\ trail' = Append(trail, [op |-> "add", url |-> url'])
    /\ UNCHANGED <<original, flag, analyticsVars>>

\* url = removeOP3Prefix(url)
RemovePrefix ==
    /\ Len(trail) < MaxOps
    /\ url' = removeOP3Prefix(url)
    /\ trail' = Append(trail, [op |-> "remove", url |-> url'])
    /\ UNCHANGED <<original, flag, analyticsVars>>

\* hasOP3Prefix(url)
CheckPrefix ==
    /\ Len(trail) < MaxOps
    /\ flag' = hasOP3Prefix(url)
    /\ trail' = Append(trail, [op |-> "has", url |-> url])
    /\ UNCHANGED <<original, url, analyticsVars>>

NextUrl ==
    \/ AddPrefix
    \/ RemovePrefix
    \/ CheckPrefix

SpecUrl == InitUrl /\ [][NextUrl]_vars

\* ------------------------------------------------------------------ claims
\* the queries whose data was computed from the rows of an OK response
Computed == {q \in {queries[tr] : tr \in TimeRanges} :
                q.status = "success" /\ q.response = "rows"}

ItemsOf(rows) == {EpisodeKey(rows[i]) : i \in 1..Len(rows)}
DatesOf(rows) == {DateKey(rows[i]) : i \in 1..Len(rows)}
\* number of rows of item id dated on or before date
CountUpTo(rows, id, date) ==
    Cardinality({i \in 1..Len(rows) :
                    EpisodeKey(rows[i]) = id /\ DateKey(rows[i]) <= date})

\* C1: every point of downloadsOverTime gives, for every item of the rows,
\* the number of rows of that item dated on or before the point's date, and
\* there is one point for each date of the rows.
C1_CumulativeCounts ==
    \A q \in Computed :
        LET pts == q.data.downloadsOverTime IN
        /\ {pts[j].date : j \in 1..Len(pts)} = DatesOf(q.rows)
        /\ \A j \in 1..Len(pts) : \A id \in ItemsOf(q.rows) :
              /\ id \in DOMAIN pts[j].totals
              /\ pts[j].totals[id] = CountUpTo(q.rows, id, pts[j].date)

\* the example of the spec: two rows of item 1 on one day, one row of item 2
\* on a later day
C1_Witness ==
    \E q \in Computed :
        /\ Len(q.rows) = 3
        /\ Len(q.data.downloadsOverTime) = 2
        /\ q.data.downloadsOverTime[1].totals = (1 :> 2 @@ 2 :> 0)
        /\ q.data.downloadsOverTime[2].totals = (1 :> 2 @@ 2 :> 1)

\* C2: the points are in ascending order of date and no item's cumulative
\* value is smaller at a later point than at an earlier one.
C2_Monotone ==
    \A q \in Computed :
        LET pts == q.data.downloadsOverTime IN
        \A j \in 1..Len(pts) : \A k \in 1..Len(pts) :
            j < k =>
                /\ pts[j].date < pts[k].date
                /\ \A id \in DOMAIN pts[j].totals :
                      /\ id \in DOMAIN pts[k].totals
                      /\ pts[j].totals[id] <= pts[k].totals[id]

\* three points over which one item grows twice while the rows arrive in
\* another order than that of their dates
C2_Witness ==
    \E q \in Computed :
        LET pts == q.data.downloadsOverTime IN
        /\ Len(pts) = 3
        /\ DateKey(q.rows[1]) > DateKey(q.rows[2])
        /\ \E id \in DOMAIN pts[1].totals :
              pts[1].totals[id] < pts[2].totals[id]
              /\ pts[2].totals[id] < pts[3].totals[id]

\* C3: every item of the rows is a key of every point, with value 0 at the
\* points dated before its first download.
FirstDate(rows, id) ==
    CHOOSE d \in DatesOf(rows) :
        /\ \E i \in 1..Len(rows) : EpisodeKey(rows[i]) = id /\ DateKey(rows[i]) = d
        /\ \A i \in 1..Len(rows) : EpisodeKey(rows[i]) = id => DateKey(rows[i]) >= d

C3_Complete ==
    \A q \in Computed :
        LET pts == q.data.downloadsOverTime IN
        \A j \in 1..Len(pts) :
            /\ DOMAIN pts[j].totals = ItemsOf(q.rows)
            /\ \A id \in ItemsOf(q.rows) :
                  pts[j].date < FirstDate(q.rows, id) =>
                      id \in DOMAIN pts[j].totals /\ pts[j].totals[id] = 0

\* a point dated before the first download of one of its items
C3_Witness ==
    \E q \in Computed :
        LET pts == q.data.downloadsOverTime IN
        \E j \in 1..Len(pts) : \E id \in ItemsOf(q.rows) :
            /\ pts[j].date < FirstDate(q.rows, id)
            /\ pts[j].totals[id] = 0

\* the three category lists of a result, the field each is grouped by, and
\* whether it is cut to TopN entries
Groupings ==
    {[list |-> "topCountries", field |-> "countryCode", capped |-> TRUE],
     [list |-> "topApps", field |-> "agentName", capped |-> TRUE],
     [list |-> "topDevices", field |-> "deviceType", capped |-> FALSE]}

KeysOf(rows, field) == {rows[i][field] : i \in 1..Len(rows)} \ {0}
CountOf(rows, field, key) ==
    Cardinality({i \in 1..Len(rows) : rows[i][field] = key})
FirstIndex(rows, field, key) ==
    CHOOSE i \in 1..Len(rows) :
        rows[i][field] = key /\ \A j \in 1..(i - 1) : rows[j][field] # key
AllKeyed(rows, field) == \A i \in 1..Len(rows) : rows[i][field] # 0

\* the percentages of a list, fractions of one common denominator, sum to 100
SumsTo100(list) ==
    /\ list # <<>>
    /\ LET den == list[1].percentage.den IN
       /\ den > 0
       /\ \A i \in 1..Len(list) : list[i].percentage.den = den
       /\ SumSeq([i \in 1..Len(list) |-> list[i].percentage.num]) = 100 * den

\* the percentages of a list sum to at most 100
SumsToAtMost100(list) ==
    \A i \in 1..Len(list) :
        /\ list[i].percentage.den = list[1].percentage.den
        /\ list[1].percentage.den > 0
        /\ SumSeq([j \in 1..Len(list) |-> list[j].percentage.num])
              <= 100 * list[1].percentage.den

\* C4 as stated: whenever the rows are not empty, the percentages of each
\* category list sum to 100.
C4_SumIs100 ==
    \A q \in Computed : Len(q.rows) > 0 =>
        \A g \in Groupings : SumsTo100(q.data[g.list])

\* C4 as amended: whenever the rows are not empty, the percentages of a
\* category list sum to at most 100, and to exactly 100 if and only if every
\* row has a non-empty key of that grouping and, for a list cut to 10 entries,
\* the rows have no more than 10 distinct keys.
C4_SumIs100IffAllCounted ==
    \A q \in Computed : Len(q.rows) > 0 =>
        \A g \in Groupings :
            /\ SumsToAtMost100(q.data[g.list])
            /\ SumsTo100(q.data[g.list]) <=>
                  /\ AllKeyed(q.rows, g.field)
                  /\ g.capped => Cardinality(KeysOf(q.rows, g.field)) <= TopN

\* one result in which the countries sum to 100 over two entries and the apps,
\* some rows having none, do not
C4_Witness ==
    \E q \in Computed :
        /\ Len(q.data.topCountries) = 2
        /\ SumsTo100(q.data.topCountries)
        /\ q.data.topApps # <<>>
        /\ ~SumsTo100(q.data.topApps)

\* C8: each category list is in descending order of count, entries of equal
\* count in the order in which their keys first occur in the rows.
C8_StableDescending ==
    \A q \in Computed : \A g \in Groupings :
        LET list == q.data[g.list] IN
        \A i \in 1..Len(list) : \A j \in 1..Len(list) :
            i < j =>
                /\ list[i].count >= list[j].count
                /\ list[i].count = list[j].count =>
                      FirstIndex(q.rows, g.field, list[i].key)
                         < FirstIndex(q.rows, g.field, list[j].key)

\* a list whose first entry was met after an entry of smaller count, and in
\* which two entries of equal count stand against the order of their keys
C8_Witness ==
    \E q \in Computed : \E g \in Groupings :
        LET list == q.data[g.list] IN
        /\ \E j \in 2..Len(list) :
              /\ list[1].count > list[j].count
              /\ FirstIndex(q.rows, g.field, list[1].key)
                    > FirstIndex(q.rows, g.field, list[j].key)
        /\ \E i \in 1..Len(list) : \E j \in 1..Len(list) :
              i < j /\ list[i].count = list[j].count /\ list[i].key > list[j].key

\* C9: topCountries and topApps have min(10, number of distinct non-empty
\* keys) entries, each a key of the rows with its count, and no key left out
\* has a greater count than a key kept; topDevices has an entry for every
\* distinct non-empty deviceType.
C9_CapAfterSort ==
    \A q \in Computed : \A g \in Groupings :
        LET list == q.data[g.list]
            keys == KeysOf(q.rows, g.field)
            kept == {list[i].key : i \in 1..Len(list)}
        IN  /\ Len(list) = IF g.capped /\ Cardinality(keys) > TopN
                           THEN TopN ELSE Cardinality(keys)
            /\ Cardinality(kept) = Len(list)
            /\ kept \subseteq keys
            /\ \A i \in 1..Len(list) :
                  list[i].count = CountOf(q.rows, g.field, list[i].key)
            /\ \A out \in keys \ kept : \A i \in 1..Len(list) :
                  CountOf(q.rows, g.field, out) <= list[i].count

\* more than 10 countries, of which a rare one met first is left out for a
\* more frequent one met later, and more than 10 devices, all kept
C9_Witness ==
    \E q \in Computed :
        LET list == q.data.topCountries
            keys == KeysOf(q.rows, "countryCode")
            kept == {list[i].key : i \in 1..Len(list)}
        IN  /\ Cardinality(keys) > TopN
            /\ Len(list) = TopN
            /\ Len(q.data.topDevices) > TopN
            /\ \E out \in keys \ kept : \E i \in 1..Len(list) :
                  /\ CountOf(q.rows, "countryCode", out) < list[i].count
                  /\ FirstIndex(q.rows, "countryCode", out)
                        < FirstIndex(q.rows, "countryCode", list[i].key)

\* C10: the percentage of every category entry is 100 * count / total, never
\* the outcome of a division by zero; a result of no rows has no entries.
C10_PercentageDefined ==
    \A q \in Computed : \A g \in Groupings :
        LET list == q.data[g.list] IN
        /\ Len(q.rows) = 0 => list = <<>>
        /\ \A i \in 1..Len(list) :
              /\ ~IsNaN(list[i].percentage)
              /\ list[i].percentage.num * Len(q.rows)
                    = 100 * list[i].count * list[i].percentage.den

\* an entry that holds one row of three: its percentage is 100 / 3
C10_Witness ==
    \E q \in Computed : \E g \in Groupings :
        \E i \in 1..Len(q.data[g.list]) :
            /\ Len(q.rows) = 3
            /\ q.data[g.list][i].count = 1
            /\ q.data[g.list][i].percentage = [num |-> 100, den |-> 3]

\* C5 as stated: the results of any two time ranges, computed from the same
\* download events at the same now, carry the same totalDownloads,
\* downloads7Days and downloads30Days.
C5_ScalarsIndependentOfRange ==
    \A p \in Computed : \A q \in Computed :
        /\ p.data.totalDownloads = q.data.totalDownloads
        /\ p.data.downloads7Days = q.data.downloads7Days
        /\ p.data.downloads30Days = q.data.downloads30Days

\* C6 as stated: a non-OK answer to the show request or to the downloads
\* request leaves the query in the error state, never in success.
C6_FailureIsError ==
    \A tr \in TimeRanges :
        queries[tr].response \in {"showNotOk", "downloadsNotOk"} =>
            queries[tr].status = "error" /\ queries[tr].data = NoData

\* C6 as amended: a non-OK answer to the show request leaves the query in
\* the error state without data; a non-OK answer to the downloads request
\* leaves it in success with the all-zero result, the very result of an
\* empty row set.
C6_ShowFailureIsError ==
    \A tr \in TimeRanges :
        /\ queries[tr].response = "showNotOk" =>
              queries[tr].status = "error" /\ queries[tr].data = NoData
        /\ queries[tr].response = "downloadsNotOk" =>
              /\ queries[tr].status = "success"
              /\ queries[tr].data = Aggregate(<<>>, now, episodeTitleMap)

\* the downloads request failed although the upstream has rows
C6_Witness ==
    /\ upstream # <<>>
    /\ Current.response = "downloadsNotOk"
    /\ Current.data.totalDownloads = 0

\* C7 as stated: rows of which some have no time are aggregated to a result,
\* in which the rows without time make no date point, add to no cumulative
\* value and are in neither the 7-day nor the 30-day count.
C7_MissingTimeTolerated ==
    \A tr \in TimeRanges :
        LET q     == queries[tr]
            timed == SelectSeq(q.rows, LAMBDA r : r.time # NoTime)
        IN  q.response = "rows" =>
                /\ q.status = "success"
                /\ q.data.downloadsOverTime = DownloadsOverTime(timed)
                /\ q.data.downloads7Days = Downloads7Days(timed, now)
                /\ q.data.downloads30Days = Downloads30Days(timed, now)

\* C11: a row without the key of a grouping makes no entry in the list of
\* that grouping and adds to none, yet is in totalDownloads: every entry has
\* a non-empty key and the count of the rows of that key, and the counts of
\* all keys (those of the list, when it is not cut short) sum to
\* totalDownloads less the number of rows without the key.
Lacking(rows, field) == Cardinality({i \in 1..Len(rows) : rows[i][field] = 0})

C11_MissingKeyExcluded ==
    \A q \in Computed : \A g \in Groupings :
        LET list == q.data[g.list] IN
        /\ q.data.totalDownloads = Len(q.rows)
        /\ \A i \in 1..Len(list) :
              /\ list[i].key # 0
              /\ list[i].count = CountOf(q.rows, g.field, list[i].key)
        /\ Cardinality(KeysOf(q.rows, g.field)) <= TopN =>
              SumSeq([i \in 1..Len(list) |-> list[i].count])
                 = q.data.totalDownloads - Lacking(q.rows, g.field)
        /\ LET m == CountMap(q.rows, g.field) IN
              SumSeq([i \in 1..Len(m) |-> m[i][2]])
                 = q.data.totalDownloads - Lacking(q.rows, g.field)

\* three rows, one of them without a country: the countries count two
C11_Witness ==
    \E q \in Computed :
        /\ q.data.totalDownloads = 3
        /\ Lacking(q.rows, "countryCode") = 1
        /\ SumSeq([i \in 1..Len(q.data.topCountries) |->
                      q.data.topCountries[i].count]) = 2

\* C12: downloads7Days is the number of rows at or after now - 7 days and
\* downloads30Days the number of rows at or after now - 30 days: the row
\* exactly at the bound is counted, the row one second before it is not, and
\* a row after now is counted.
C12_InclusiveLowerBound ==
    \A q \in Computed :
        /\ q.data.downloads7Days =
              Cardinality({i \in 1..Len(q.rows) :
                              q.rows[i].time - (now - 7 * DAY) >= 0})
        /\ q.data.downloads30Days =
              Cardinality({i \in 1..Len(q.rows) :
                              q.rows[i].time - (now - 30 * DAY) >= 0})

\* a row exactly 7 days before now, a row one second earlier and a row in
\* the future: two in the 7-day count, three in the 30-day count
C12_Witness ==
    \E q \in Computed :
        /\ {q.rows[i].time : i \in 1..Len(q.rows)}
              = {now - 7 * DAY, now - 7 * DAY - 1, now + DAY}
        /\ Len(q.rows) = 3
        /\ q.data.downloads7Days = 2
        /\ q.data.downloads30Days = 3

\* C13: a downloads response with no rows, or without the rows member, gives
\* under every time range a successful result of zeros and empty sequences.
C13_EmptyIsWellFormed ==
    \A tr \in TimeRanges :
        LET q == queries[tr] IN
        (q.response = "rows" /\ (q.rows = <<>> \/ q.rows = Absent)) =>
            /\ q.status = "success"
            /\ q.data.totalDownloads = 0
            /\ q.data.uniqueAudience = 0
            /\ q.data.downloads7Days = 0
            /\ q.data.downloads30Days = 0
            /\ q.data.episodeStats = <<>>
            /\ q.data.topCountries = <<>>
            /\ q.data.topApps = <<>>
            /\ q.data.topDevices = <<>>
            /\ q.data.downloadsOverTime = <<>>

\* all four ranges answered with no rows
C13_Witness ==
    \A tr \in TimeRanges :
        /\ queries[tr].response = "rows"
        /\ queries[tr].rows = <<>>
        /\ queries[tr].status = "success"
        /\ queries[tr].data.totalDownloads = 0

\* C14: uniqueAudience is the number of distinct non-empty hashedIpAddress
\* values of the rows, whatever their order and whatever item, country, app
\* or device they belong to.
C14_UniqueAudience ==
    \A q \in Computed :
        q.data.uniqueAudience =
            Cardinality({q.rows[i].hashedIpAddress : i \in 1..Len(q.rows)} \ {0})

\* three rows of three items and three countries, one of them with no hash
C14_Witness ==
    \E q \in Computed :
        /\ Len(q.rows) = 3
        /\ {q.rows[i].hashedIpAddress : i \in 1..3} = {0, 1, 2}
        /\ Cardinality({q.rows[i].episodeId : i \in 1..3}) = 3
        /\ Cardinality({q.rows[i].countryCode : i \in 1..3}) = 3
        /\ q.data.uniqueAudience = 2

\* the identity of a row's item: its episodeId, or its url when it has none
Identity(r) == IF r.episodeId # 0 THEN r.episodeId ELSE r.url
RowsOfItem(rows, id) == {i \in 1..Len(rows) : Identity(rows[i]) = id}

\* C15: episodeStats has one entry per distinct identity, with the number of
\* its rows as downloads and the number of their distinct non-empty hashes as
\* uniqueListeners, which is at most downloads and at most uniqueAudience;
\* the entries are in descending order of downloads.
C15_EpisodeStats ==
    \A q \in Computed :
        LET es  == q.data.episodeStats
            ids == {Identity(q.rows[i]) : i \in 1..Len(q.rows)}
        IN  /\ {es[i].episodeId : i \in 1..Len(es)} = ids
            /\ Len(es) = Cardinality(ids)
            /\ \A i \in 1..Len(es) :
                  LET mine == RowsOfItem(q.rows, es[i].episodeId) IN
                  /\ es[i].downloads = Cardinality(mine)
                  /\ es[i].uniqueListeners =
                        Cardinality({q.rows[j].hashedIpAddress : j \in mine} \ {0})
                  /\ es[i].uniqueListeners <= es[i].downloads
                  /\ es[i].uniqueListeners <= q.data.uniqueAudience
            /\ \A i, j \in 1..Len(es) :
                  i < j => es[i].downloads >= es[j].downloads

\* the item met first has one row; the item known by its url has two rows,
\* one of them with no hash, and is listed first
C15_Witness ==
    \E q \in Computed :
        /\ Len(q.rows) = 3
        /\ q.rows[1].episodeId = 1
        /\ q.rows[2].episodeId = 0 /\ q.rows[2].hashedIpAddress = 0
        /\ q.rows[3].episodeId = 0 /\ q.rows[3].hashedIpAddress = 2
        /\ Len(q.data.episodeStats) = 2
        /\ q.data.episodeStats[1].episodeId = 12
        /\ q.data.episodeStats[1].downloads = 2
        /\ q.data.episodeStats[1].uniqueListeners = 1
        /\ q.data.episodeStats[2].downloads = 1

\* the sum of f over the set S of arguments
RECURSIVE SumOver(_, _)
SumOver(f, S) ==
    IF S = {} THEN 0
    ELSE LET x == CHOOSE y \in S : TRUE IN f[x] + SumOver(f, S \ {x})

\* C18: for a non-empty row set the keys of every downloadsOverTime point are
\* the episodeId values of episodeStats, the last point gives every item its
\* downloads, the values of the last point add up to totalDownloads, and the
\* dates of the points are strictly ascending.
C18_SeriesAgreesWithStats ==
    \A q \in Computed :
        q.rows # <<>> =>
            LET pts  == q.data.downloadsOverTime
                es   == q.data.episodeStats
                last == pts[Len(pts)].totals
            IN  /\ Len(pts) >= 1
                /\ \A j \in 1..Len(pts) :
                      DOMAIN pts[j].totals = {es[i].episodeId : i \in 1..Len(es)}
                /\ \A i \in 1..Len(es) : last[es[i].episodeId] = es[i].downloads
                /\ SumOver(last, DOMAIN last) = q.data.totalDownloads
                /\ \A j, k \in 1..Len(pts) : j < k => pts[j].date < pts[k].date

\* two rows of an item known by its url only, the later one first, and one
\* row of another item
C18_Witness ==
    \E q \in Computed :
        /\ Len(q.rows) = 3
        /\ q.rows[1].episodeId = 0 /\ q.rows[2].episodeId = 0
        /\ q.rows[3].episodeId = 2
        /\ DateKey(q.rows[1]) > DateKey(q.rows[2])
        /\ Len(q.data.downloadsOverTime) = 2
        /\ q.data.downloadsOverTime[2].totals = (11 :> 2 @@ 2 :> 1)
        /\ q.data.totalDownloads = 3

\* the calls made so far begin with the operations ops
Began(ops) ==
    /\ Len(trail) >= Len(ops)
    /\ \A i \in 1..Len(ops) : trail[i].op = ops[i]

\* what the claim says of a URL apart from the round trip: adding the prefix
\* twice gives what adding it once gives, a URL has the prefix once it is
\* added, removing the prefix leaves a URL without it as it is, and the empty
\* URL stays empty and without prefix
PrefixLawsButRoundTrip ==
    /\ (original # <<>> /\ Began(<<"add", "add">>)) =>
          trail[2].url = trail[1].url
    /\ (original # <<>> /\ Began(<<"add", "has">>)) => flag = TRUE
    /\ (~StartsWith(original, OP3_PREFIX) /\ Began(<<"remove">>)) =>
          trail[1].url = original
    /\ original = <<>> =>
          /\ \A i \in 1..Len(trail) : trail[i].url = <<>>
          /\ flag = FALSE

Bare(u) ==
    IF StartsWith(u, OP3_PREFIX) THEN SubSeq(u, 3, Len(u))
    ELSE IF u # <<>> /\ u[1] \in {"https://", "http://"} THEN Tail(u)
    ELSE u

====
